---- MODULE Spec2Model ----
(***************************************************************************)
(* Single-server FIFO bank queue, discrete-event simulation.               *)
(* Model of scripts/simulation.py: class Customer and class                *)
(* BankQueueSimulation (constructor, schedule_*, handle_arrival,           *)
(* handle_departure, run).                                                 *)
(*                                                                         *)
(* Logical time is modelled by naturals; the two random sources return     *)
(* strictly positive whole durations.  float('inf') is the value Inf,      *)
(* larger than every time a bounded run can reach.  On whole times the     *)
(* lookup test abs(c.departure_time - clock) < 1e-6 is equality.           *)
(***************************************************************************)
EXTENDS Naturals, Integers, Sequences, FiniteSets

\* ---- bounds of the model ----
MaxCustomers == 3
MaxServiceTime == 2
MaxInterArrival == 3
\* run() may re-dispatch handle_departure without end; busy_time is capped
MaxBusyTime == 12

\* float('inf')
Inf == 1000000

\* values generate_service_time() may return
ServiceTimes == 1..MaxServiceTime
\* values generate_interarrival_time() may return (10: the fixed-source scenario)
InterArrivalTimes == (1..MaxInterArrival) \cup {10}

VARIABLES
    num_customers,      \* self.num_customers
    customers,          \* self.customers: sequence of Customer records, id k at index k+1
    clock,              \* self.clock
    server_busy,        \* self.server_busy
    queue,              \* self.queue: ids of the waiting Customer objects, head first
    next_event_time,    \* self.next_event_time
    next_arrival,       \* self.next_arrival
    next_departure,     \* self.next_departure
    metrics,            \* self.metrics
    pc,                 \* position of run(): constructed, loop, dispatch, returned, or the exception raised
    service_draws,      \* values returned so far by generate_service_time(), in call order
    interarrival_draws, \* values returned so far by generate_interarrival_time(), in call order
    peak_queue,         \* history: largest len(self.queue) seen in any state so far
    in_service,         \* history: ids whose service has begun and that handle_departure has not received since
    departed            \* history: pairs <<id, clock>> of the customers handed to handle_departure

vars == <<num_customers, customers, clock, server_busy, queue, next_event_time,
          next_arrival, next_departure, metrics, pc, service_draws,
          interarrival_draws, peak_queue, in_service, departed>>

Min(a, b) == IF a <= b THEN a ELSE b

Max(a, b) == IF a >= b THEN a ELSE b

\* a float quotient n / d, kept exact as the pair <<n, d>>; <<>> is an absent key
Fraction(n, d) == <<n, d>>

\* Customer(id=..., arrival_time=..., service_time=...) with the dataclass defaults
NewCustomer(id, arrival, service) ==
    [id |-> id, arrival_time |-> arrival, service_time |-> service,
     service_start |-> 0, departure_time |-> 0]

\* Customer.waiting_time
waiting_time(c) == c.service_start - c.arrival_time

\* Customer.time_in_system
time_in_system(c) == c.departure_time - c.arrival_time

\* variant of BeginService: the departure time leaves out the current clock
BeginService_ClockLeftOut(c, clk) ==
    [c EXCEPT !.service_start = clk, !.departure_time = c.service_time]

\* the two assignments that start a customer's service at time clk
BeginService(c, clk) ==
    [c EXCEPT !.service_start = clk, !.departure_time = clk + c.service_time]

\* variant of ArrivalDue: the customer budget test admits one customer too many
ArrivalDue_BudgetOffByOne ==
    next_arrival <= next_departure /\ Len(customers) <= num_customers

\* variant of ArrivalDue: on equal times the departure is taken first
ArrivalDue_DepartureWinsTie ==
    next_arrival < next_departure /\ Len(customers) < num_customers

\* run(): the test that selects the arrival branch
ArrivalDue ==
    next_arrival <= next_departure /\ Len(customers) < num_customers

\* variant of StartsServiceOnArrival: the server test is inverted
StartsServiceOnArrival_Inverted == server_busy

\* handle_arrival(): the test that sends the arriving customer straight to the server
StartsServiceOnArrival == ~server_busy

\* variant of PopFront: queue.pop() takes the customer at the tail
PopFront_TakesTail(q) ==
    [customer |-> q[Len(q)], rest |-> SubSeq(q, 1, Len(q) - 1)]

\* handle_departure(): queue.pop(0), the customer taken and the queue left
PopFront(q) == [customer |-> Head(q), rest |-> Tail(q)]

\* handle_arrival(): the test guarding the generation of the next arrival
MoreToGenerate(custs) == Len(custs) < num_customers - 1

\* run(): indices of the customers the departure lookup matches at time clk
DepartureMatches(clk) ==
    {i \in 1..Len(customers) : customers[i].departure_time = clk}

\* run(): next(...) yields the first match in list order
DepartingIndex(clk) ==
    CHOOSE i \in DepartureMatches(clk) : \A j \in DepartureMatches(clk) : i <= j

\* variant of UpdatedMaxQueue: the queue is sampled as it was before the append
UpdatedMaxQueue_SampledEarly(old, q) == Max(old, Len(q) - 1)

\* handle_arrival(): the value recorded as max_queue_length
UpdatedMaxQueue(old, q) == Max(old, Len(q))

Init ==
    /\ num_customers \in 0..MaxCustomers
    /\ customers = <<>>
    /\ clock = 0
    /\ server_busy = FALSE
    /\ queue = <<>>
    /\ next_event_time = Inf
    /\ next_arrival = 0
    /\ next_departure = Inf
    /\ metrics = [total_waiting_time |-> 0, total_system_time |-> 0,
                  max_queue_length |-> 0, server_utilization |-> Fraction(0, 1),
                  busy_time |-> 0, average_waiting_time |-> <<>>,
                  average_system_time |-> <<>>]
    /\ pc = "constructed"
    /\ service_draws = <<>>
    /\ interarrival_draws = <<>>
    /\ peak_queue = 0
    /\ in_service = {}
    /\ departed = {}

\* run(), before the loop: the seed customer is built and its arrival scheduled
RunStart ==
    /\ pc = "constructed"
    /\ \E s \in ServiceTimes :
          service_draws' = Append(service_draws, s)
    /\ next_arrival' = 0
    /\ next_event_time' = Min(next_event_time, 0)
    /\ pc' = "loop"
    /\ UNCHANGED <<num_customers, customers, clock, server_busy, queue,
                   next_departure, metrics, interarrival_draws, peak_queue,
                   in_service, departed>>

\* run(), after the loop: the derived metrics, with the clock the loop left
Finalize(clk) ==
    /\ clock' = clk
    /\ IF clk = 0 \/ num_customers = 0
       THEN /\ pc' = "ZeroDivisionError"
            /\ metrics' =
                 IF clk = 0 THEN metrics
                 ELSE [metrics EXCEPT !.server_utilization =
                          IF clk = Inf THEN Fraction(0, 1)
                          ELSE Fraction(metrics.busy_time * 100, clk)]
       ELSE /\ pc' = "returned"
            /\ metrics' = [metrics EXCEPT
                 !.server_utilization =
                     IF clk = Inf THEN Fraction(0, 1)
                     ELSE Fraction(metrics.busy_time * 100, clk),
                 !.average_waiting_time =
                     Fraction(metrics.total_waiting_time, num_customers),
                 !.average_system_time =
                     Fraction(metrics.total_system_time, num_customers)]

\* run(): the loop test, the clock advance and the break
AdvanceClock ==
    /\ pc = "loop"
    /\ IF ~(clock < Inf)
       THEN Finalize(clock)
       ELSE IF next_event_time = Inf
            THEN Finalize(Inf)
            ELSE /\ clock' = next_event_time
                 /\ pc' = "dispatch"
                 /\ metrics' = metrics
    /\ UNCHANGED <<num_customers, customers, server_busy, queue,
                   next_event_time, next_arrival, next_departure,
                   service_draws, interarrival_draws, peak_queue,
                   in_service, departed>>

\* run(): the arrival branch, handle_arrival() included
ProcessArrival ==
    /\ pc = "dispatch"
    /\ ArrivalDue
    /\ \E s \in ServiceTimes :
         LET current == NewCustomer(Len(customers), next_arrival, s)
             appended == Append(customers, current)
         IN  /\ IF StartsServiceOnArrival
                THEN /\ server_busy' = TRUE
                     /\ customers' = [appended EXCEPT ![Len(appended)] =
                                         BeginService(current, clock)]
                     /\ next_departure' = BeginService(current, clock).departure_time
                     /\ queue' = queue
                     /\ in_service' = in_service \cup {current.id}
                ELSE /\ queue' = Append(queue, current.id)
                     /\ customers' = appended
                     /\ UNCHANGED <<server_busy, next_departure, in_service>>
             /\ IF MoreToGenerate(appended)
                THEN \E ia \in InterArrivalTimes, s2 \in ServiceTimes :
                        /\ next_arrival' = clock + ia
                        /\ interarrival_draws' = Append(interarrival_draws, ia)
                        /\ service_draws' = Append(Append(service_draws, s), s2)
                ELSE /\ next_arrival' = next_arrival
                     /\ interarrival_draws' = interarrival_draws
                     /\ service_draws' = Append(service_draws, s)
    /\ metrics' = [metrics EXCEPT !.max_queue_length =
                      UpdatedMaxQueue(metrics.max_queue_length, queue')]
    /\ next_event_time' = Min(next_arrival', next_departure')
    /\ peak_queue' = Max(peak_queue, Len(queue'))
    /\ pc' = "loop"
    /\ UNCHANGED <<num_customers, clock, departed>>

\* run(): the departure branch when the lookup finds a customer,
\* handle_departure() included
ProcessDeparture ==
    /\ pc = "dispatch"
    /\ ~ArrivalDue
    /\ DepartureMatches(clock) # {}
    /\ LET c == customers[DepartingIndex(clock)]
       IN  /\ metrics.busy_time + c.service_time <= MaxBusyTime
           /\ metrics' = [metrics EXCEPT
                 !.total_waiting_time = @ + waiting_time(c),
                 !.total_system_time = @ + time_in_system(c),
                 !.busy_time = @ + c.service_time]
           /\ departed' = departed \cup {<<c.id, clock>>}
           /\ in_service' =
                 (in_service \ {c.id}) \cup
                 (IF queue # <<>> THEN {PopFront(queue).customer} ELSE {})
    /\ IF queue # <<>>
       THEN LET h == PopFront(queue).customer + 1
            IN  /\ queue' = PopFront(queue).rest
                /\ customers' = [customers EXCEPT ![h] = BeginService(@, clock)]
                /\ next_departure' = BeginService(customers[h], clock).departure_time
                /\ server_busy' = server_busy
       ELSE /\ server_busy' = FALSE
            /\ next_departure' = Inf
            /\ UNCHANGED <<queue, customers>>
    /\ next_event_time' = Min(next_arrival, next_departure')
    /\ peak_queue' = Max(peak_queue, Len(queue'))
    /\ pc' = "loop"
    /\ UNCHANGED <<num_customers, clock, next_arrival, service_draws,
                   interarrival_draws>>

\* run(): the departure branch when the lookup finds nobody: next() raises
DepartureLookupFails ==
    /\ pc = "dispatch"
    /\ ~ArrivalDue
    /\ DepartureMatches(clock) = {}
    /\ pc' = "StopIteration"
    /\ UNCHANGED <<num_customers, customers, clock, server_busy, queue,
                   next_event_time, next_arrival, next_departure, metrics,
                   service_draws, interarrival_draws, peak_queue,
                   in_service, departed>>

Next ==
    \/ RunStart
    \/ AdvanceClock
    \/ ProcessArrival
    \/ ProcessDeparture
    \/ DepartureLookupFails

Spec == Init /\ [][Next]_vars

\* ---- properties ----

\* run() has stopped: it returned the metrics or an exception left it
Stopped == pc \in {"returned", "StopIteration", "ZeroDivisionError"}

\* customer id k is in the wait queue
Waiting(k) == \E p \in 1..Len(queue) : queue[p] = k

\* every draw so far of the fixed-source scenario: inter-arrival 10, service 2
FixedSources ==
    /\ \A i \in 1..Len(interarrival_draws) : interarrival_draws[i] = 10
    /\ \A i \in 1..Len(service_draws) : service_draws[i] = 2

\* C1: for num_customers >= 1 and positive durations run() terminates: it
\* leaves the event loop normally, without raising, and finalizes the
\* metrics.  Stated as the safety part: no exception ever leaves run().
C1_RunLeavesLoopNormally ==
    num_customers >= 1 => pc \notin {"StopIteration", "ZeroDivisionError"}

\* C2: with num_customers = N >= 1 the customers list never holds more than
\* N records, holds N when the run has stopped, and the arrival of the N-th
\* customer schedules no further arrival (next_arrival is not reassigned and
\* no inter-arrival time is drawn).
C2_ExactlyNCustomers ==
    /\ [](num_customers >= 1 =>
            /\ Len(customers) <= num_customers
            /\ (Stopped => Len(customers) = num_customers))
    /\ [][(/\ num_customers >= 1
           /\ Len(customers') = Len(customers) + 1
           /\ Len(customers') = num_customers)
          => /\ next_arrival' = next_arrival
             /\ interarrival_draws' = interarrival_draws]_vars

\* C2 witness: a run of three customers has stopped with all three records
C2_Witness ==
    Stopped /\ num_customers = 3 /\ Len(customers) = 3

\* C3: every customer handed to handle_departure has, at that moment,
\* waiting_time >= 0 and time_in_system = waiting_time + service_time.
C3_CompletedCustomerTimes ==
    (pc = "dispatch" /\ ~ArrivalDue /\ DepartureMatches(clock) # {}) =>
        LET c == customers[DepartingIndex(clock)]
        IN  /\ waiting_time(c) >= 0
            /\ time_in_system(c) = waiting_time(c) + c.service_time

\* C4: the wait queue is non-empty only while the server is busy.
C4_QueueOnlyWhileBusy ==
    queue # <<>> => server_busy

\* C4 witness: after a departure that took a customer from the queue, another
\* customer still waits and the server is busy
C4_Witness ==
    /\ pc = "loop"
    /\ queue # <<>>
    /\ metrics.busy_time > 0
    /\ server_busy

\* C5: customers are served in arrival order: a customer never begins
\* service while a customer with a smaller id still waits, and of two
\* customers that have begun service the one with the smaller id began no
\* later.
C5_ServedInArrivalOrder ==
    \A i \in 1..Len(customers) : \A j \in 1..Len(customers) :
        i < j =>
            /\ Waiting(i - 1) => Waiting(j - 1)
            /\ (~Waiting(i - 1) /\ ~Waiting(j - 1)) =>
                  customers[i].service_start <= customers[j].service_start

\* C5 witness: two customers waited together and the one that arrived first
\* has been taken from the queue while the other still waits
C5_Witness ==
    /\ Len(customers) = 3
    /\ peak_queue = 2
    /\ ~Waiting(1)
    /\ Waiting(2)

\* C6: total_system_time = total_waiting_time + busy_time after every
\* handle_departure, hence in the finalized metrics.
C6_Conservation ==
    metrics.total_system_time = metrics.total_waiting_time + metrics.busy_time

\* C7: max_queue_length never decreases and equals the largest length the
\* wait queue has had in any state reached so far.
C7_MaxQueueLength ==
    /\ [][metrics'.max_queue_length >= metrics.max_queue_length]_vars
    /\ [](metrics.max_queue_length = peak_queue)

\* C7 witness: the queue has held two customers and has shrunk since
C7_Witness ==
    /\ metrics.max_queue_length = 2
    /\ Len(queue) < 2

\* C8: with inter-arrival fixed at 10, service fixed at 2 and three
\* customers, nobody waits: every customer starts service on arrival, the
\* queue stays empty, max_queue_length = 0, and the run returns
\* average_waiting_time = 0.
C8_FixedSourcesNobodyWaits ==
    (num_customers = 3 /\ FixedSources) =>
        /\ queue = <<>>
        /\ metrics.max_queue_length = 0
        /\ \A i \in 1..Len(customers) :
              customers[i].service_start = customers[i].arrival_time
        /\ Stopped =>
              /\ pc = "returned"
              /\ metrics.average_waiting_time = Fraction(0, 3)

\* C9: with one customer and service time s, the customer arrives at 0 and
\* waits 0, and the run ends with clock = s, busy_time = s (utilization
\* 100%) and max_queue_length = 0.
C9_SingleCustomer ==
    (num_customers = 1 /\ Stopped) =>
        /\ pc = "returned"
        /\ Len(customers) = 1
        /\ customers[1].arrival_time = 0
        /\ waiting_time(customers[1]) = 0
        /\ clock = customers[1].service_time
        /\ metrics.busy_time = customers[1].service_time
        /\ metrics.max_queue_length = 0

\* C10: with num_customers = 0 the clock is still 0 when the metrics are
\* derived; run() returns them with server_utilization = 0 instead of
\* faulting.
C10_ZeroClockUtilization ==
    (num_customers = 0 /\ Stopped) =>
        /\ pc = "returned"
        /\ clock = 0
        /\ metrics.server_utilization[1] = 0

\* run() is about to take the departure branch
DepartureBranch == pc = "dispatch" /\ ~ArrivalDue

\* C11: whenever run() takes the departure branch, the lookup by
\* departure_time = clock matches exactly one customer, and that customer is
\* the one in service: never nobody, a waiting customer or a departed one.
C11_LookupFindsCustomerInService ==
    (num_customers >= 1 /\ DepartureBranch) =>
        /\ Cardinality(DepartureMatches(clock)) = 1
        /\ \A i \in DepartureMatches(clock) : (i - 1) \in in_service

\* C12: once the arrival of the last customer to be generated has been
\* handled, the pending arrival is cleared: next_arrival is infinity.
C12_LastArrivalClearsPendingArrival ==
    (num_customers >= 1 /\ Len(customers) = num_customers) =>
        next_arrival = Inf

\* C13: a departure is scheduled only once the previous one is consumed:
\* at most one customer has a scheduled, unprocessed departure, and when a
\* customer's departure is scheduled nobody else keeps one.
C13_OnePendingDeparture ==
    /\ [](Cardinality(in_service) <= 1)
    /\ [][\A k \in in_service' \ in_service : in_service' = {k}]_vars

\* C14: the clock never decreases from one loop iteration to the next.
C14_ClockMonotone ==
    [][clock' >= clock]_vars

\* C14 witness: the clock has advanced past a departure to a later arrival
C14_Witness ==
    /\ pc = "dispatch"
    /\ departed # {}
    /\ \A d \in departed : d[2] < clock
    /\ Len(customers) >= 1
    /\ clock = next_arrival

\* C15: when the arrival of a customer still to be created and a departure
\* are due at the same time, the arrival is processed first: the new
\* customer is queued behind the customer in service, whose departure is
\* still pending, and max_queue_length has sampled the queue with it.
C15_ArrivalWinsTie ==
    [][(/\ pc = "dispatch"
        /\ next_arrival = next_departure
        /\ Len(customers) < num_customers)
       => /\ Len(customers') = Len(customers) + 1
          /\ queue' = Append(queue, Len(customers))
          /\ in_service' = in_service
          /\ in_service # {}
          /\ next_departure' = next_departure
          /\ departed' = departed
          /\ metrics'.max_queue_length >= Len(queue')]_vars

\* C15 witness: a customer that arrived at the very time of the pending
\* departure waits in the queue and that departure is still to be processed
C15_Witness ==
    /\ pc = "loop"
    /\ clock = next_departure
    /\ \E i \in 1..Len(customers) :
          /\ Waiting(i - 1)
          /\ customers[i].arrival_time = next_departure
    /\ \E k \in in_service : customers[k + 1].departure_time = clock

\* C16: server_busy is false exactly when no customer is in service.
C16_BusyIffInService ==
    server_busy <=> in_service # {}

\* C17: every service time is drawn once, when its customer is created, and
\* none is discarded: the k-th draw is the service_time of customer k (the
\* seed draw that of customer 0) and N customers consume exactly N draws.
C17_ServiceDrawnOncePerCustomer ==
    num_customers >= 1 =>
        /\ Len(service_draws) <= num_customers
        /\ \A k \in 1..Len(customers) :
              service_draws[k] = customers[k].service_time
        /\ Stopped => Len(service_draws) = num_customers

\* C18: arrival times strictly increase with the id: the arrival time of
\* customer k+1 is that of customer k plus one positive inter-arrival draw.
C18_ArrivalTimesIncrease ==
    \A k \in 1..(Len(customers) - 1) :
        /\ customers[k + 1].arrival_time > customers[k].arrival_time
        /\ k <= Len(interarrival_draws)
        /\ customers[k + 1].arrival_time =
              customers[k].arrival_time + interarrival_draws[k]

\* C19: one server: at most one customer is in service, and the service
\* intervals [service_start, departure_time) of two customers that have begun
\* service do not overlap.
C19_SingleServer ==
    /\ Cardinality(in_service) <= 1
    /\ \A i \in 1..Len(customers) : \A j \in 1..Len(customers) :
          (i < j /\ ~Waiting(i - 1) /\ ~Waiting(j - 1)) =>
              \/ customers[i].departure_time <= customers[j].service_start
              \/ customers[j].departure_time <= customers[i].service_start

\* C20: every customer of the list begins service and is handed to
\* handle_departure at a clock equal to its departure_time = service_start +
\* service_time; when the run has stopped nobody waits or is in service.
C20_EveryCustomerDeparts ==
    (num_customers >= 1 /\ Stopped) =>
        /\ queue = <<>>
        /\ in_service = {}
        /\ \A k \in 1..Len(customers) :
              /\ customers[k].departure_time =
                    customers[k].service_start + customers[k].service_time
              /\ <<k - 1, customers[k].departure_time>> \in departed

====
